---- MODULE Spec2Model ----
(***************************************************************************)
(* The prediction form page (frontend/app/page.tsx) and its API client     *)
(* (frontend/app/api.ts): React state of the Page component, the load      *)
(* sequence started by its effect, the onChange / onSubmit / Reset         *)
(* handlers and the continuations that run when a fetch settles.           *)
(*                                                                         *)
(* JavaScript values are tagged records; strings that the code inspects    *)
(* (field names, raw input text) are sequences of one-character strings.   *)
(***************************************************************************)
EXTENDS Integers, Sequences, FiniteSets, TLC

VARIABLES schema, metrics, form, loading, result, error,
          loadPc, predictReqs, mounted, calls

vars == <<schema, metrics, form, loading, result, error,
          loadPc, predictReqs, mounted, calls>>

(***************************************************************************)
(* Bounds of the model.                                                    *)
(***************************************************************************)
\* longest feature_order the server sends
MaxOrder == 2
\* number of Submit invocations explored
MaxSubmits == 2

(***************************************************************************)
(* JavaScript values.                                                      *)
(***************************************************************************)
Null == [kind |-> "null"]
Undefined == [kind |-> "undefined"]
NaN == [kind |-> "NaN"]
Num(n) == [kind |-> "number", n |-> n]
Str(s) == [kind |-> "string", s |-> s]
Arr(items) == [kind |-> "array", items |-> items]

\* a ?? b
Nullish(v, dflt) == IF v = Null \/ v = Undefined THEN dflt ELSE v

\* obj[key] for a plain object held as a function on its own keys
Get(obj, key) == IF key \in DOMAIN obj THEN obj[key] ELSE Undefined

EmptyObject == [k \in {} |-> Null]

(***************************************************************************)
(* Characters and property keys.                                           *)
(***************************************************************************)
DigitVal == [c \in {"0", "1", "2", "3", "4", "5", "6", "7", "8", "9"} |->
               CASE c = "0" -> 0 [] c = "1" -> 1 [] c = "2" -> 2 [] c = "3" -> 3
                 [] c = "4" -> 4 [] c = "5" -> 5 [] c = "6" -> 6 [] c = "7" -> 7
                 [] c = "8" -> 8 [] c = "9" -> 9]

IsDigits(s) == Len(s) > 0 /\ \A i \in DOMAIN s : s[i] \in DOMAIN DigitVal

RECURSIVE DecimalValue(_)
DecimalValue(s) ==
    IF Len(s) = 0 THEN 0
    ELSE 10 * DecimalValue(SubSeq(s, 1, Len(s) - 1)) + DigitVal[s[Len(s)]]

\* A property key that is an array index: the canonical decimal form of an
\* integer below 2^32 - 1 (every canonical form of at most nine digits is
\* one; the model has no longer names).  An object lists such keys first,
\* ascending.
IsArrayIndex(key) ==
    /\ IsDigits(key)
    /\ (Len(key) = 1 \/ key[1] # "0")
    /\ Len(key) <= 9

\* payload[key] = value on an object held as its own properties in
\* enumeration order
ObjSet(obj, key, value) ==
    IF \E i \in DOMAIN obj : obj[i].key = key
    THEN [i \in DOMAIN obj |->
            IF obj[i].key = key THEN [key |-> key, value |-> value] ELSE obj[i]]
    ELSE LET pos == IF IsArrayIndex(key)
                    THEN Cardinality({i \in DOMAIN obj :
                            /\ IsArrayIndex(obj[i].key)
                            /\ DecimalValue(obj[i].key) < DecimalValue(key)})
                    ELSE Len(obj)
         IN  SubSeq(obj, 1, pos) \o <<[key |-> key, value |-> value]>>
                \o SubSeq(obj, pos + 1, Len(obj))

ObjKeys(obj) == [i \in DOMAIN obj |-> obj[i].key]

(***************************************************************************)
(* What the server can answer.                                             *)
(***************************************************************************)
FieldNames == {<<"a", "g", "e">>, <<"7">>}

SeqsUpTo(S, n) == UNION {[1..k -> S] : k \in 0..n}

NumberMeta == [type |-> "number", options |-> <<>>]
SelectMeta == [type |-> "select",
               options |-> <<Str(<<"B">>), Num(34), Str(<<" ", "3">>)>>]
TextMeta == [type |-> "text", options |-> <<>>]
\* a kind the renderer does not know
DateMeta == [type |-> "date", options |-> <<>>]

\* field_meta of the schema: in the last, "7" has no entry
FieldMetas == {
    [n \in FieldNames |-> IF n = <<"a", "g", "e">> THEN NumberMeta ELSE SelectMeta],
    [n \in FieldNames |-> IF n = <<"a", "g", "e">> THEN TextMeta ELSE DateMeta],
    [n \in {<<"a", "g", "e">>} |-> SelectMeta] }

Schemas == [feature_order : {Undefined} \cup {Arr(o) : o \in SeqsUpTo(FieldNames, MaxOrder)},
            field_meta : FieldMetas]

MetricsSnapshots == {[accuracy |-> Num(1)]}

\* probability is held in percent
PredictionResults == {[probability |-> 82, risk_label |-> "High Risk"],
                      [probability |-> 10, risk_label |-> "High Risk"],
                      [probability |-> 50, risk_label |-> "Moderate Risk"],
                      [probability |-> 10, risk_label |-> "Low Risk"],
                      [probability |-> 82, risk_label |-> "high risk"]}

\* A settled fetch: rejected with an error carrying `message`, or a response
\* with status flag `ok` and JSON body `body`.
Rejections == {[rejected |-> TRUE, message |-> m, ok |-> FALSE, body |-> Null] :
                  m \in {"NetworkError", ""}}
BadStatus == [rejected |-> FALSE, message |-> "", ok |-> FALSE, body |-> Null]
OkResponse(b) == [rejected |-> FALSE, message |-> "", ok |-> TRUE, body |-> b]

SchemaResponses == Rejections \cup {BadStatus} \cup {OkResponse(s) : s \in Schemas}
MetricsResponses == Rejections \cup {BadStatus} \cup {OkResponse(m) : m \in MetricsSnapshots}
PredictResponses == Rejections \cup {BadStatus} \cup {OkResponse(r) : r \in PredictionResults}

(***************************************************************************)
(* API client.                                                             *)
(***************************************************************************)
Throw(m) == [threw |-> TRUE, message |-> m, value |-> Null]
Return(v) == [threw |-> FALSE, message |-> "", value |-> v]

getSchemaGenericMessage(r) ==
    IF r.rejected THEN Throw(r.message)
    ELSE IF ~r.ok THEN Throw("Failed to load schema/metrics")
    ELSE Return(r.body)

getSchema(r) ==
    IF r.rejected THEN Throw(r.message)
    ELSE IF ~r.ok THEN Throw("Failed to fetch schema")
    ELSE Return(r.body)

getMetricsSchemaMessage(r) ==
    IF r.rejected THEN Throw(r.message)
    ELSE IF ~r.ok THEN Throw("Failed to fetch schema")
    ELSE Return(r.body)

getMetrics(r) ==
    IF r.rejected THEN Throw(r.message)
    ELSE IF ~r.ok THEN Throw("Failed to fetch metrics")
    ELSE Return(r.body)

predict(r) ==
    IF r.rejected THEN Throw(r.message)
    ELSE IF ~r.ok THEN Throw("Prediction failed")
    ELSE Return(r.body)

MessageOnly(message, fallback) == message

\* e.message || fallback
MessageOr(message, fallback) == IF message = "" THEN fallback ELSE message

(***************************************************************************)
(* Field renderer: what an input event hands to onChange.                  *)
(***************************************************************************)
Whitespace == {" "}

RECURSIVE TrimLeft(_)
TrimLeft(s) ==
    IF Len(s) > 0 /\ s[1] \in Whitespace THEN TrimLeft(Tail(s)) ELSE s

RECURSIVE TrimRight(_)
TrimRight(s) ==
    IF Len(s) > 0 /\ s[Len(s)] \in Whitespace
    THEN TrimRight(SubSeq(s, 1, Len(s) - 1)) ELSE s

\* Number(text) on the strings of the model: blank text is 0, decimal digits
\* are their value, anything else is NaN
StringToNumber(s) ==
    LET t == TrimRight(TrimLeft(s))
    IN  IF Len(t) = 0 THEN Num(0)
        ELSE IF IsDigits(t) THEN Num(DecimalValue(t))
        ELSE NaN

\* isFinite(x) for the numbers of the model
IsFinite(v) == v.kind = "number"

DigitChar(d) == CHOOSE c \in DOMAIN DigitVal : DigitVal[c] = d

RECURSIVE NaturalToString(_)
NaturalToString(n) ==
    IF n < 10 THEN <<DigitChar(n)>>
    ELSE Append(NaturalToString(n \div 10), DigitChar(n % 10))

\* String(opt) for an option of a select
OptionToString(opt) == IF opt.kind = "number" THEN NaturalToString(opt.n) ELSE opt.s

\* schema?.feature_order || []
feature_order(s) ==
    IF s = Null THEN <<>>
    ELSE IF s.feature_order = Undefined THEN <<>>
    ELSE s.feature_order.items

\* schema.field_meta?.[name] || { type: "text" }
FieldMetaOf(s, name) ==
    IF name \in DOMAIN s.field_meta THEN s.field_meta[name] ELSE TextMeta

\* the input texts of the model
RawTexts == {<<>>, <<"3">>, <<"B">>, <<"3", "4">>, <<" ", "3">>}

\* e.target.value of the control renderField draws for `meta`
RawInputs(meta) ==
    IF meta.type = "select"
    THEN {<<>>} \cup {OptionToString(meta.options[i]) : i \in DOMAIN meta.options}
    ELSE IF meta.type = "number"
    THEN {<<>>, <<"3">>}
    ELSE {<<>>, <<"B">>}

CoerceNumberNoEmptyCheck(meta, raw) ==
    IF meta.type = "select"
    THEN IF raw = <<>> THEN Null
         ELSE IF IsFinite(StringToNumber(raw)) THEN StringToNumber(raw)
         ELSE Str(raw)
    ELSE IF meta.type = "number"
    THEN StringToNumber(raw)
    ELSE IF raw = <<>> THEN Null ELSE Str(raw)

CoerceSelectNoFiniteCheck(meta, raw) ==
    IF meta.type = "select"
    THEN IF raw = <<>> THEN Null ELSE StringToNumber(raw)
    ELSE IF meta.type = "number"
    THEN IF raw = <<>> THEN Null ELSE StringToNumber(raw)
    ELSE IF raw = <<>> THEN Null ELSE Str(raw)

\* the value renderField's onChange handler passes on
Coerce(meta, raw) ==
    IF meta.type = "select"
    THEN IF raw = <<>> THEN Null
         ELSE IF IsFinite(StringToNumber(raw)) THEN StringToNumber(raw)
         ELSE Str(raw)
    ELSE IF meta.type = "number"
    THEN IF raw = <<>> THEN Null ELSE StringToNumber(raw)
    ELSE IF raw = <<>> THEN Null ELSE Str(raw)

(***************************************************************************)
(* Result presenter.                                                       *)
(***************************************************************************)
getRiskColorNoModerate(risk) ==
    IF risk = "High Risk" THEN "#dc2626" ELSE "#16a34a"

getRiskColor(risk) ==
    IF risk = "High Risk" THEN "#dc2626"
    ELSE IF risk = "Moderate Risk" THEN "#f59e0b"
    ELSE "#16a34a"

\* color of the "Risk Level" line of the result block
LabelColor(res) == getRiskColor(res.risk_label)

\* background of the progress bar's fill
BarColor(res) == getRiskColor(res.risk_label)

(***************************************************************************)
(* Form state controller.                                                  *)
(***************************************************************************)
onChangeReplace(f, name, value) == [k \in {name} |-> value]

\* setForm((f) => ({ ...f, [name]: value }))
onChange(f, name, value) ==
    [k \in DOMAIN f \cup {name} |-> IF k = name THEN value ELSE f[k]]

\* the loop of onSubmit that fills payload
RECURSIVE BuildPayload(_, _, _)
BuildPayload(order, f, payload) ==
    IF Len(order) = 0 THEN payload
    ELSE BuildPayload(Tail(order), f,
                      ObjSet(payload, Head(order), Nullish(Get(f, Head(order)), Null)))

FormRenderedWithoutSchema == mounted

\* the form element is drawn only once schema is set
FormRendered == mounted /\ schema # Null

CanSubmitWhileLoading == FormRendered

\* the submit button is disabled while loading
CanSubmit == FormRendered /\ ~loading

Init ==
    /\ schema = Null
    /\ metrics = Null
    /\ form = EmptyObject
    /\ loading = FALSE
    /\ result = Null
    /\ error = ""
    /\ loadPc = "effect"
    /\ predictReqs = <<>>
    /\ mounted = TRUE
    /\ calls = [schema |-> 0, metrics |-> 0, predict |-> 0]

\* the effect runs after the first render and calls getSchema()
LoadStart ==
    /\ loadPc = "effect"
    /\ mounted
    /\ loadPc' = "getSchema"
    /\ calls' = [calls EXCEPT !.schema = @ + 1]
    /\ UNCHANGED <<schema, metrics, form, loading, result, error, predictReqs, mounted>>

\* await getSchema() returns: setSchema(s), then getMetrics() is called
SchemaResolve(r) ==
    /\ loadPc = "getSchema"
    /\ ~getSchema(r).threw
    /\ schema' = getSchema(r).value
    /\ loadPc' = "getMetrics"
    /\ calls' = [calls EXCEPT !.metrics = @ + 1]
    /\ UNCHANGED <<metrics, form, loading, result, error, predictReqs, mounted>>

SchemaRejectThenMetrics(r) ==
    /\ loadPc = "getSchema"
    /\ getSchema(r).threw
    /\ error' = MessageOr(getSchema(r).message, "Failed to load schema/metrics")
    /\ loadPc' = "getMetrics"
    /\ calls' = [calls EXCEPT !.metrics = @ + 1]
    /\ UNCHANGED <<schema, metrics, form, loading, result, predictReqs, mounted>>

\* await getSchema() throws: the catch block
SchemaReject(r) ==
    /\ loadPc = "getSchema"
    /\ getSchema(r).threw
    /\ error' = MessageOr(getSchema(r).message, "Failed to load schema/metrics")
    /\ loadPc' = "schemaFailed"
    /\ UNCHANGED <<schema, metrics, form, loading, result, predictReqs, mounted, calls>>

\* await getMetrics() returns: setMetrics(m)
MetricsResolve(r) ==
    /\ loadPc = "getMetrics"
    /\ ~getMetrics(r).threw
    /\ metrics' = getMetrics(r).value
    /\ loadPc' = "done"
    /\ UNCHANGED <<schema, form, loading, result, error, predictReqs, mounted, calls>>

\* await getMetrics() throws: the catch block
MetricsReject(r) ==
    /\ loadPc = "getMetrics"
    /\ getMetrics(r).threw
    /\ error' = MessageOr(getMetrics(r).message, "Failed to load schema/metrics")
    /\ loadPc' = "metricsFailed"
    /\ UNCHANGED <<schema, metrics, form, loading, result, predictReqs, mounted, calls>>

\* an input event on the control of field `name`
Edit(name, raw) ==
    /\ FormRendered
    /\ \E i \in DOMAIN feature_order(schema) : feature_order(schema)[i] = name
    /\ raw \in RawInputs(FieldMetaOf(schema, name))
    /\ form' = onChange(form, name, Coerce(FieldMetaOf(schema, name), raw))
    /\ UNCHANGED <<schema, metrics, loading, result, error, loadPc, predictReqs,
                   mounted, calls>>

SubmitKeepsResult ==
    /\ CanSubmit
    /\ calls.predict < MaxSubmits
    /\ loading' = TRUE
    /\ error' = ""
    /\ predictReqs' = Append(predictReqs,
                             [payload |-> BuildPayload(feature_order(schema), form, <<>>)])
    /\ calls' = [calls EXCEPT !.predict = @ + 1]
    /\ UNCHANGED <<schema, metrics, form, result, loadPc, mounted>>

\* onSubmit up to the await: the three setters, the payload, predict(payload)
Submit ==
    /\ CanSubmit
    /\ calls.predict < MaxSubmits
    /\ loading' = TRUE
    /\ error' = ""
    /\ result' = Null
    /\ predictReqs' = Append(predictReqs,
                             [payload |-> BuildPayload(feature_order(schema), form, <<>>)])
    /\ calls' = [calls EXCEPT !.predict = @ + 1]
    /\ UNCHANGED <<schema, metrics, form, loadPc, mounted>>

Remove(s, i) == SubSeq(s, 1, i - 1) \o SubSeq(s, i + 1, Len(s))

\* await predict(payload) returns: setResult(res), then the finally block
PredictResolve(i, r) ==
    /\ i \in DOMAIN predictReqs
    /\ ~predict(r).threw
    /\ result' = predict(r).value
    /\ loading' = FALSE
    /\ predictReqs' = Remove(predictReqs, i)
    /\ UNCHANGED <<schema, metrics, form, error, loadPc, mounted, calls>>

PredictRejectNoFinally(i, r) ==
    /\ i \in DOMAIN predictReqs
    /\ predict(r).threw
    /\ error' = MessageOr(predict(r).message, "Prediction failed")
    /\ predictReqs' = Remove(predictReqs, i)
    /\ UNCHANGED <<schema, metrics, form, loading, result, loadPc, mounted, calls>>

\* await predict(payload) throws: the catch block, then the finally block
PredictReject(i, r) ==
    /\ i \in DOMAIN predictReqs
    /\ predict(r).threw
    /\ error' = MessageOr(predict(r).message, "Prediction failed")
    /\ loading' = FALSE
    /\ predictReqs' = Remove(predictReqs, i)
    /\ UNCHANGED <<schema, metrics, form, result, loadPc, mounted, calls>>

ResetClearsError ==
    /\ FormRendered
    /\ form' = EmptyObject
    /\ result' = Null
    /\ error' = ""
    /\ UNCHANGED <<schema, metrics, loading, loadPc, predictReqs, mounted, calls>>

ResetCancelsRequest ==
    /\ FormRendered
    /\ form' = EmptyObject
    /\ result' = Null
    /\ loading' = FALSE
    /\ predictReqs' = <<>>
    /\ UNCHANGED <<schema, metrics, error, loadPc, mounted, calls>>

\* the Reset button
Reset ==
    /\ FormRendered
    /\ form' = EmptyObject
    /\ result' = Null
    /\ UNCHANGED <<schema, metrics, loading, error, loadPc, predictReqs, mounted, calls>>

\* the page is left: the component unmounts; nothing cancels a pending fetch
Teardown ==
    /\ mounted
    /\ mounted' = FALSE
    /\ UNCHANGED <<schema, metrics, form, loading, result, error, loadPc,
                   predictReqs, calls>>

Next ==
    \/ LoadStart
    \/ \E r \in SchemaResponses : SchemaResolve(r)
    \/ \E r \in SchemaResponses : SchemaReject(r)
    \/ \E r \in MetricsResponses : MetricsResolve(r)
    \/ \E r \in MetricsResponses : MetricsReject(r)
    \/ \E name \in FieldNames, raw \in RawTexts : Edit(name, raw)
    \/ Submit
    \/ \E i \in 1..MaxSubmits, r \in PredictResponses : PredictResolve(i, r)
    \/ \E i \in 1..MaxSubmits, r \in PredictResponses : PredictReject(i, r)
    \/ Reset
    \/ Teardown

Spec == Init /\ [][Next]_vars

(***************************************************************************)
(* Properties.                                                             *)
(***************************************************************************)

\* C1: in every reachable state error and result are mutually exclusive: error
\* is never non-empty while result is non-null.
C1_ErrorResultExclusive == ~(error # "" /\ result # Null)

\* C2: at most one prediction request is in flight at any time: while loading
\* is true no step issues a further predict request.
C2_AtMostOneInFlight ==
    [][ /\ Len(predictReqs') <= 1
        /\ loading => Len(predictReqs') <= Len(predictReqs) ]_vars

\* a second submission is in flight after the first one has settled
C2_Witness == loading /\ Len(predictReqs) = 1 /\ calls.predict = 2

\* the FormValues entry for `key`, null when the field is absent
FormValueOrNull(f, key) == IF key \in DOMAIN f THEN f[key] ELSE Null

\* C3: the payload Submit hands to predict has exactly the keys of
\* schema.feature_order, in the same sequence, each with the FormValues entry
\* of its field, or null when FormValues has none.
C3_PayloadFollowsFeatureOrder ==
    [][ Submit =>
          LET p == predictReqs'[Len(predictReqs')].payload
          IN  /\ ObjKeys(p) = feature_order(schema)
              /\ \A i \in DOMAIN p : p[i].value = FormValueOrNull(form, p[i].key) ]_vars

\* C4: every submit attempt clears loading exactly once: the step in which
\* the attempt's request settles (resolved or failed) takes loading from true
\* to false and leaves Submit possible, no other step clears loading, and
\* loading is true only while an attempt is outstanding.
C4_LoadingClearedOncePerAttempt ==
    [][ /\ Len(predictReqs') < Len(predictReqs)
            => loading /\ ~loading' /\ (mounted' => CanSubmit')
        /\ (loading /\ ~loading') => Len(predictReqs') = Len(predictReqs) - 1
        /\ loading' => Len(predictReqs') >= 1 ]_vars

\* a failed attempt has ended and a later attempt was started and has ended
C4_Witness ==
    /\ calls.predict = 2
    /\ ~loading
    /\ predictReqs = <<>>
    /\ error # ""

\* C5: after teardown no response changes schema, metrics, loading, error or
\* result.
C5_LateResponsesIgnored ==
    [][ ~mounted => UNCHANGED <<schema, metrics, loading, error, result>> ]_vars

\* C6: the initial load is serial and never retried: each fetch of the load
\* is issued at most once, the metrics request is issued only in the step in
\* which the schema request completes successfully, and once the schema fetch
\* has failed no metrics request is ever issued.
C6_SerialLoadNoRetry ==
    [][ /\ calls'.schema <= 1
        /\ calls'.metrics <= 1
        /\ calls'.metrics > calls.metrics
            => /\ loadPc = "getSchema"
               /\ schema = Null
               /\ schema' \in Schemas
        /\ loadPc' = "schemaFailed" => calls'.metrics = 0
        /\ loadPc = "schemaFailed" => loadPc' = "schemaFailed" ]_vars

\* the schema fetch has failed and the user has left the page afterwards
C6_Witness ==
    /\ loadPc = "schemaFailed"
    /\ calls.schema = 1
    /\ calls.metrics = 0
    /\ ~mounted

\* the message a failed load fetch leaves in error
LoadFailureText(r, statusText) ==
    IF ~r.rejected THEN statusText
    ELSE IF r.message = "" THEN "Failed to load schema/metrics"
    ELSE r.message

\* C7: a failed metrics fetch does not block the form: the failing step keeps
\* schema stored, leaves metrics unset and sets error to the failure's message
\* ("Failed to fetch metrics" for a non-success status); afterwards schema
\* stays stored, metrics stays unset and the form stays rendered, with Submit
\* possible whenever no submission is loading.
C7_MetricsFailureKeepsForm ==
    [][ /\ \A r \in MetricsResponses :
              MetricsReject(r)
                => /\ schema' = schema
                   /\ schema' \in Schemas
                   /\ metrics' = Null
                   /\ error' = LoadFailureText(r, "Failed to fetch metrics")
        /\ loadPc' = "metricsFailed"
            => /\ schema' \in Schemas
               /\ metrics' = Null
               /\ mounted' => FormRendered'
               /\ (mounted' /\ ~loading') => CanSubmit' ]_vars

\* the metrics fetch has failed, a field holds an edited value and a
\* submission is in flight
C7_Witness ==
    /\ loadPc = "metricsFailed"
    /\ metrics = Null
    /\ form # EmptyObject
    /\ loading
    /\ mounted

\* C8: when the schema fetch returns a non-success status error is set to
\* "Failed to fetch schema"; after a failed schema fetch schema and metrics
\* stay unset, error keeps the failure's message, and the form is never
\* rendered: no field is edited and no Submit is triggered.
C8_SchemaFailureKeepsPlaceholder ==
    [][ /\ SchemaReject(BadStatus) => error' = "Failed to fetch schema"
        /\ loadPc' = "schemaFailed"
            => /\ schema' = Null
               /\ metrics' = Null
               /\ error' # ""
               /\ ~FormRendered'
               /\ ~CanSubmit'
               /\ form' = EmptyObject
               /\ calls'.predict = 0
        /\ loadPc = "schemaFailed" => error' = error ]_vars

\* the schema fetch came back with a non-success status
C8_Witness ==
    /\ loadPc = "schemaFailed"
    /\ error = "Failed to fetch schema"
    /\ mounted

\* the message a failed prediction leaves in error
PredictFailureText(r) ==
    IF ~r.rejected THEN "Prediction failed"
    ELSE IF r.message = "" THEN "Prediction failed"
    ELSE r.message

\* C9: when a prediction request fails the attempt ends with error set to
\* the failure's message ("Prediction failed" for a non-success status or a
\* failure without message), loading false and result null, and FormValues,
\* schema and metrics unchanged.
C9_PredictFailure ==
    [][ \A i \in 1..MaxSubmits, r \in PredictResponses :
          PredictReject(i, r)
            => /\ error' = PredictFailureText(r)
               /\ ~loading'
               /\ result' = Null
               /\ form' = form
               /\ schema' = schema
               /\ metrics' = metrics ]_vars

\* a prediction has failed on a form that holds values, with metrics loaded
C9_Witness ==
    /\ error = "Prediction failed"
    /\ ~loading
    /\ result = Null
    /\ calls.predict >= 1
    /\ form # EmptyObject
    /\ metrics # Null

\* C10: Edit(fieldName, value) changes only the FormValues entry of
\* fieldName: that entry becomes the value, every other entry is kept, and
\* schema, metrics, loading, error and result are unchanged.
C10_EditFrame ==
    [][ \A name \in FieldNames, raw \in RawTexts :
          Edit(name, raw)
            => /\ name \in DOMAIN form'
               /\ form'[name] = Coerce(FieldMetaOf(schema, name), raw)
               /\ DOMAIN form' = DOMAIN form \cup {name}
               /\ \A k \in DOMAIN form \ {name} : form'[k] = form[k]
               /\ UNCHANGED <<schema, metrics, loading, error, result>> ]_vars

\* two different fields hold edited values
C10_Witness ==
    /\ Cardinality(DOMAIN form) = 2
    /\ \E k \in DOMAIN form : form[k] # Null

\* C11: Reset sets FormValues to the empty mapping and result to null and
\* leaves schema, metrics and error unchanged, in every state in which it is
\* invoked (also while a submission is loading).
C11_ResetFrame ==
    [][ Reset
          => /\ form' = EmptyObject
             /\ result' = Null
             /\ UNCHANGED <<schema, metrics, error>> ]_vars

\* Reset was pressed while a submission was loading and an error was shown:
\* the request in flight carries a value the emptied form no longer holds
C11_Witness ==
    /\ loading
    /\ form = EmptyObject
    /\ error # ""
    /\ \E i \in DOMAIN predictReqs :
          \E j \in DOMAIN predictReqs[i].payload :
              predictReqs[i].payload[j].value # Null

\* C12: an edit with an empty input stores null for the field, whatever the
\* kind of the field (number, select, text, unknown kind, no meta): never NaN,
\* never 0 and never the empty string; no FormValues entry is NaN or the
\* empty string.
C12_EmptyInputStoresNull ==
    [][ /\ \A name \in FieldNames :
              Edit(name, <<>>) => name \in DOMAIN form' /\ form'[name] = Null
        /\ \A k \in DOMAIN form' : form'[k] # NaN /\ form'[k] # Str(<<>>) ]_vars

\* a number field and a select field both hold null after an empty input
C12_Witness ==
    /\ schema # Null
    /\ DOMAIN form = FieldNames
    /\ \A k \in DOMAIN form : form[k] = Null
    /\ \E k \in DOMAIN form : FieldMetaOf(schema, k).type = "number"
    /\ \E k \in DOMAIN form : FieldMetaOf(schema, k).type = "select"

\* C13: a select-field edit with a non-empty choice stores the number the
\* choice converts to when that number is finite, and the raw string
\* unchanged otherwise.
C13_SelectCoercion ==
    [][ \A name \in FieldNames, raw \in RawTexts \ {<<>>} :
          (Edit(name, raw) /\ FieldMetaOf(schema, name).type = "select")
            => /\ name \in DOMAIN form'
               /\ form'[name] = IF IsDigits(TrimRight(TrimLeft(raw)))
                                THEN Num(DecimalValue(TrimRight(TrimLeft(raw))))
                                ELSE Str(raw) ]_vars

\* a select holds the number of the numeric choice "34"
C13_Witness ==
    /\ schema # Null
    /\ \E k \in DOMAIN form :
          /\ FieldMetaOf(schema, k).type = "select"
          /\ form[k] = Num(34)

\* the tier the result block shows for a risk label
ExpectedTier(label) ==
    CASE label = "High Risk" -> "#dc2626"
      [] label = "Moderate Risk" -> "#f59e0b"
      [] OTHER -> "#16a34a"

\* C14: the severity shown for a result depends only on risk_label by string
\* equality ("High Risk", "Moderate Risk", anything else the default tier);
\* the label and the bar use the same tier, whatever the probability.
C14_SeverityFromLabel ==
    result # Null
      => /\ LabelColor(result) = ExpectedTier(result.risk_label)
         /\ BarColor(result) = LabelColor(result)
         /\ \A other \in PredictionResults :
               other.risk_label = result.risk_label
                 => /\ LabelColor(other) = LabelColor(result)
                    /\ BarColor(other) = BarColor(result)

\* a moderate-risk result is shown
C14_Witness ==
    /\ result # Null
    /\ result.risk_label = "Moderate Risk"
    /\ LabelColor(result) = "#f59e0b"

\* C15: a Submit invocation sets loading and clears error and result in the
\* step that issues the prediction request, so in every reachable state
\* loading = true implies result = null.
C15_NoStaleResultWhileLoading ==
    [][ /\ Submit
          => /\ loading'
             /\ error' = ""
             /\ result' = Null
             /\ Len(predictReqs') = Len(predictReqs) + 1
        /\ loading' => result' = Null ]_vars

\* a second submission is loading on a filled form after a first one ended
C15_Witness ==
    /\ loading
    /\ result = Null
    /\ calls.predict = 2
    /\ metrics # Null
    /\ DOMAIN form = FieldNames

\* C16: the payload of a prediction request is a snapshot taken by Submit:
\* an Edit or a Reset while the request is in flight changes neither the
\* requests already sent nor loading, and the response is still applied when
\* it arrives (result on success, error on failure).
C16_PayloadIsSnapshot ==
    [][ /\ (Reset \/ \E name \in FieldNames, raw \in RawTexts : Edit(name, raw))
          => UNCHANGED <<predictReqs, loading>>
        /\ \A i \in 1..MaxSubmits, r \in PredictResponses :
              /\ PredictResolve(i, r) => result' = r.body /\ ~loading'
              /\ PredictReject(i, r) => error' # "" /\ ~loading' ]_vars

\* an edit made while the request is in flight: the form holds a value for a
\* field that the payload already sent carries another value for
C16_Witness ==
    /\ loading
    /\ \E i \in DOMAIN predictReqs :
          \E j \in DOMAIN predictReqs[i].payload :
             LET e == predictReqs[i].payload[j]
             IN  /\ e.key \in DOMAIN form
                 /\ form[e.key] # Null
                 /\ form[e.key] # e.value

\* C17: a prediction request is issued only once schema is loaded: in every
\* reachable state loading = true or result non-null (or any predict call
\* made) implies schema non-null.
C17_PredictNeedsSchema ==
    (loading \/ result # Null \/ calls.predict > 0 \/ predictReqs # <<>>)
      => schema # Null

\* a result is shown while the metrics fetch is still pending
C17_Witness ==
    /\ result # Null
    /\ schema # Null
    /\ loadPc = "getMetrics"

\* C18: schema and metrics are each written at most once, by the load
\* sequence, and never change or become unset afterwards; metrics non-null
\* implies schema non-null; no Edit, Submit, Reset or prediction response
\* modifies either.
C18_SchemaMetricsWriteOnce ==
    [][ /\ schema # Null => schema' = schema
        /\ metrics # Null => metrics' = metrics
        /\ metrics' # Null => schema' # Null
        /\ schema' # schema => loadPc = "getSchema" /\ loadPc' = "getMetrics"
        /\ metrics' # metrics => loadPc = "getMetrics" /\ loadPc' = "done"
        /\ ( \/ Submit
             \/ Reset
             \/ \E name \in FieldNames, raw \in RawTexts : Edit(name, raw)
             \/ \E i \in 1..MaxSubmits, r \in PredictResponses :
                   PredictResolve(i, r) \/ PredictReject(i, r) )
            => UNCHANGED <<schema, metrics>> ]_vars

\* both are loaded and two submissions have ended, the last with a result
C18_Witness ==
    /\ schema # Null
    /\ metrics # Null
    /\ calls.predict = 2
    /\ result # Null
    /\ form # EmptyObject

====
